---- MODULE Spec2Model ----
(***************************************************************************)
(* The job store and the background runner of app_improved.py, with the    *)
(* stage agents of agents/openai_*.py (agents/base_agent.py BaseAgent)     *)
(* that the runner drives, and the two sequential pipelines of the         *)
(* repository: test.run_workflow and AgentOrchestrator.execute_workflow    *)
(* of agents/base_agent_improved.py.                                       *)
(*                                                                         *)
(* reports is the module-level dictionary of app_improved.py.  Every       *)
(* background thread started by generate_report or retry_report is one     *)
(* entry of runners; each statement of process_report and of               *)
(* handle_agent_error that touches reports is one step of its thread, as   *)
(* the threads are not synchronised with the request handlers.             *)
(***************************************************************************)
EXTENDS Integers, Sequences, FiniteSets, TLC

(* Bounds of the model. *)
MaxJobs == 2
MaxRuns == 2
CallsPerStage == 1
ConvStages == 2

(* BaseAgent.__init__: self.max_retries = 3 *)
max_retries == 3

(* SimpleAgent.call_openai of test.py: max_retries = 3 *)
call_openai_max_retries == 3

VARIABLES
    call,       \* one invocation of call_openai_api / call_openai, followed request by request
    workflow,   \* which program runs, and its call of run_workflow / execute_workflow
    apiKey,     \* os.getenv("OPENAI_API_KEY") is set
    reports,    \* app_improved.reports: report_id -> record
    nextId,     \* the next uuid4 that generate_report draws
    runners,    \* the background threads running process_report
    nRuns,      \* the number of threads started so far
    conv        \* conversation_history of the four registered agents

vars == <<call, workflow, apiKey, reports, nextId, runners, nRuns, conv>>

Ids == 1..MaxJobs
Runs == 1..MaxRuns
Addresses == {"", "10 Downing Street, London, SW1A 2AA"}

(* The registration order of the agents and what process_report writes at *)
(* each stage boundary.                                                    *)
Stages == <<"research", "evaluation", "accessor", "report_generator">>
StageStatus == <<"researching", "evaluating", "reviewing", "generating">>
StageProgress == <<10, 30, 50, 70>>
StageMessage == <<"Researching property data...", "Evaluating property data...",
                  "Reviewing and approving data...", "Generating report...">>
DetailKey == <<"research", "evaluation", "accessor", "report">>
DetailStart == <<"Gathering property data...", "Analyzing property data...",
                 "Reviewing data...", "Creating report...">>
DetailDone == <<"Research complete", "Evaluation complete",
                "Review complete", "Report complete">>

(* What the generative service answers to one request, and the text of the *)
(* exception a failed call ends with.                                      *)
Replies == {"200", "429", "error", "error_rate_limit_text"}
RateLimitText == "Rate limit exceeded"
FailedText == "Failed to call OpenAI API"
ReplyText(reply) == IF reply = "error_rate_limit_text" THEN RateLimitText ELSE FailedText

(* "rate limit" in error_message.lower() *)
ContainsRateLimit(text) == text = RateLimitText

NoRunner == [id |-> 0, address |-> "", pc |-> "unused", stage |-> 0, calls |-> 0,
             attempt |-> 0, live |-> FALSE, snap |-> <<>>, invoked |-> <<>>,
             outputs |-> {}, exc |-> "", failed |-> "", prev |-> ""]

InitialDetails == [research |-> "Initializing...", evaluation |-> "Waiting...",
                   accessor |-> "Waiting...", report |-> "Waiting...",
                   error_agent |-> "", error_message |-> ""]

InitialRecord(address, message) ==
    [address |-> address, status |-> "processing", progress |-> 0,
     message |-> <<message>>, agent_details |-> InitialDetails,
     html |-> <<>>, content |-> <<>>, date |-> <<>>, data |-> <<>>,
     error_details |-> <<>>, can_retry |-> <<>>, retry_after |-> <<>>]

(* The programs of the repository that drive the four stages. *)
NoWorkflow == [program |-> "app_improved", pc |-> "idle", steps |-> <<>>, step |-> 0,
               current_data |-> <<>>, input_data |-> <<>>, invoked |-> <<>>,
               outputs |-> {}, failed |-> "",
               workflow_steps |-> <<>>, status |-> "", error |-> "",
               final_result |-> <<>>, files |-> <<>>]

(* The data passed from stage to stage is a dict; the model keeps, for     *)
(* each key, who wrote its value: "initial", "parameters", "default" (the  *)
(* default of a .get on a missing key) or the name of a stage.             *)
initial_data == "address" :> "initial"

(* run_workflow(address) is entered. *)
RunWorkflowCall == [NoWorkflow EXCEPT !.program = "run_workflow", !.pc = "stage",
                                      !.steps = Stages, !.step = 1,
                                      !.current_data = initial_data]

(* The workflow lists execute_workflow is called with: the pipeline, and   *)
(* the pipeline with an agent id that is not registered.                   *)
Workflows == {Stages, <<"research", "valuation", "accessor", "report_generator">>}

(* execute_workflow(workflow, initial_data) is entered: current_data =     *)
(* initial_data, results = {'workflow_steps': [], 'final_result': None,    *)
(* 'status': 'in_progress'}                                                *)
ExecuteWorkflowCall(steps) ==
    [NoWorkflow EXCEPT !.program = "execute_workflow", !.pc = "step", !.steps = steps,
                       !.step = 1, !.current_data = initial_data,
                       !.status = "in_progress"]

(* No invocation is followed. *)
NoCall == [function |-> "", pc |-> "idle", replies |-> <<>>, requests |-> 0,
           retry_count |-> 0, retry_delay |-> 0, sleeps |-> <<>>, error |-> "",
           max_retries |-> 0, initial_retry_delay |-> 0, max_retry_delay |-> 0,
           jitter |-> 0]

Init ==
    /\ call = NoCall
    /\ workflow \in {NoWorkflow, RunWorkflowCall}
                     \cup {ExecuteWorkflowCall(steps) : steps \in Workflows}
    /\ apiKey \in BOOLEAN
    /\ reports = <<>>
    /\ nextId = 1
    /\ runners = [r \in Runs |-> NoRunner]
    /\ nRuns = 0
    /\ conv = [s \in 1..4 |-> <<>>]

(***************************************************************************)
(* The request handlers of app_improved.py.                                *)
(***************************************************************************)

Failure(message) == [success |-> FALSE, message |-> message]

Success(id, message) == [success |-> TRUE, report_id |-> id, message |-> message]

(* as generate_report_response, without the check of the address *)
generate_report_response_any_address(address) ==
    IF ~apiKey THEN Failure("OpenAI API key not found")
    ELSE Success(nextId, "Report generation started")

(* What generate_report returns for a request with this address. *)
generate_report_response(address) ==
    IF address = "" THEN Failure("Address is required")
    ELSE IF ~apiKey THEN Failure("OpenAI API key not found")
    ELSE Success(nextId, "Report generation started")

(* as StoreInitial, but the record is not in the store when the thread starts *)
StoreInitial_after_start(id, address) == reports

(* reports[report_id] = {...} of generate_report *)
StoreInitial(id, address) ==
    reports @@ (id :> InitialRecord(address, "Starting research..."))

(* threading.Thread(target=process_report, args=(report_id, address)).start() *)
StartThread(id, address, prev) ==
    [runners EXCEPT ![nRuns + 1] =
        [NoRunner EXCEPT !.id = id, !.address = address, !.pc = "status",
                         !.stage = 1, !.prev = prev]]

generate_report(address) ==
    /\ workflow.program = "app_improved"
    /\ IF generate_report_response(address).success
       THEN /\ nextId <= MaxJobs
            /\ nRuns < MaxRuns
            /\ reports' = StoreInitial(nextId, address)
            /\ runners' = StartThread(nextId, address, "")
            /\ nRuns' = nRuns + 1
            /\ nextId' = nextId + 1
            /\ UNCHANGED <<call, workflow, apiKey, conv>>
       ELSE UNCHANGED vars

(* The JSON body of report_status for a stored record. *)
StatusBody(report) ==
    [success |-> TRUE,
     status |-> report.status,
     progress |-> report.progress,
     message |-> report.message,
     complete |-> (report.status = "complete"),
     agent_details |-> report.agent_details,
     error_details |-> report.error_details,
     can_retry |-> (report.can_retry # <<>>),
     retry_after |-> IF report.retry_after = <<>> THEN 0 ELSE report.retry_after[1]]

(* What report_status returns in the current state. *)
report_status_response(id) ==
    IF id \notin DOMAIN reports THEN Failure("Report not found")
    ELSE StatusBody(reports[id])

(* report_status reads the store and changes nothing. *)
report_status(id) ==
    /\ workflow.program = "app_improved"
    /\ report_status_response(id).success \in BOOLEAN
    /\ UNCHANGED vars

clear_report_response(id) ==
    IF id \in DOMAIN reports THEN [success |-> TRUE, message |-> "Report cleared"]
    ELSE Failure("Report not found")

(* as Cleared, but an id that is not stored empties the store *)
Cleared_all(store, id) ==
    IF id \in DOMAIN store
    THEN [i \in DOMAIN store \ {id} |-> store[i]]
    ELSE <<>>

(* if report_id in reports: del reports[report_id] *)
Cleared(store, id) ==
    IF id \in DOMAIN store
    THEN [i \in DOMAIN store \ {id} |-> store[i]]
    ELSE store

clear_report(id) ==
    /\ workflow.program = "app_improved"
    /\ reports' = Cleared(reports, id)
    /\ UNCHANGED <<call, workflow, apiKey, nextId, runners, nRuns, conv>>

retry_report_response(id) ==
    IF id \notin DOMAIN reports THEN Failure("Report not found")
    ELSE IF reports[id].address = "" THEN Failure("Address not found in report data")
    ELSE Success(id, "Report generation restarted")

retry_report(id) ==
    /\ workflow.program = "app_improved"
    /\ IF retry_report_response(id).success
       THEN /\ nRuns < MaxRuns
            /\ reports' = [reports EXCEPT ![id] =
                    InitialRecord(reports[id].address, "Restarting report generation...")]
            /\ runners' = StartThread(id, reports[id].address, reports[id].status)
            /\ nRuns' = nRuns + 1
            /\ UNCHANGED <<call, workflow, apiKey, nextId, conv>>
       ELSE UNCHANGED vars

(***************************************************************************)
(* The parse steps of the openai_* stage agents.  A reply of the service   *)
(* is a text over the characters that matter to them: the delimiters, "s"  *)
(* for a JSON string and "x" for prose.  What json.loads returns is        *)
(* [type |-> "str"], [type |-> "dict"] or a list of such values.           *)
(***************************************************************************)

MaxLen == 3

Chars == {"[", "]", "{", "}", "s", "x"}

Texts == UNION {[1..n -> Chars] : n \in 0..MaxLen}

JSONDecodeError == [type |-> "JSONDecodeError"]

(* json.loads from position i of the text: [ok, value, next] *)
RECURSIVE ParseValue(_, _)
RECURSIVE ParseItems(_, _, _)
ParseValue(text, i) ==
    LET fail == [ok |-> FALSE, value |-> JSONDecodeError, next |-> 0] IN
    IF i > Len(text) THEN fail
    ELSE IF text[i] = "s" THEN [ok |-> TRUE, value |-> [type |-> "str"], next |-> i + 1]
    ELSE IF text[i] = "{"
    THEN IF i + 1 <= Len(text) /\ text[i + 1] = "}"
         THEN [ok |-> TRUE, value |-> [type |-> "dict"], next |-> i + 2]
         ELSE fail
    ELSE IF text[i] = "[" THEN ParseItems(text, i + 1, <<>>)
    ELSE fail

ParseItems(text, i, items) ==
    IF i > Len(text) THEN [ok |-> FALSE, value |-> JSONDecodeError, next |-> 0]
    ELSE IF text[i] = "]"
    THEN [ok |-> TRUE, value |-> [type |-> "list", items |-> items], next |-> i + 1]
    ELSE LET v == ParseValue(text, i) IN
         IF v.ok THEN ParseItems(text, v.next, Append(items, v.value)) ELSE v

json_loads(text) ==
    LET v == ParseValue(text, 1) IN
    IF v.ok /\ v.next = Len(text) + 1 THEN v.value ELSE JSONDecodeError

(* if open in message and close in message:                                *)
(*     json.loads(message[message.find(open):message.rfind(close)+1])      *)
(* "absent" when the condition is false                                    *)
ExtractJson(message, open, close) ==
    LET opens == {i \in DOMAIN message : message[i] = open}
        closes == {i \in DOMAIN message : message[i] = close}
    IN IF opens = {} \/ closes = {} THEN [type |-> "absent"]
       ELSE LET find == CHOOSE i \in opens : \A j \in opens : i <= j
                rfind == CHOOSE i \in closes : \A j \in closes : i >= j
            IN json_loads(SubSeq(message, find, rfind))

(* The replies followed through the section methods: the texts short of   *)
(* MaxLen, which have the reply without braces, the one that decodes and   *)
(* the ones that do not.                                                   *)
SectionReplies == {text \in Texts : Len(text) < MaxLen}

(* The sections of the report content. *)
ReportSections == {"executive_summary", "property_appraisal", "feasibility_study",
                   "planning_analysis", "risk_assessment", "local_market_analysis",
                   "conclusion"}

(* ReportGenerationAgent._generate_executive_summary and the six methods   *)
(* like it: the decoded object with the section's data added under 'data', *)
(* the default content when the reply has no braces, the basic content     *)
(* when decoding or the addition raises.                                   *)
generate_section(message) ==
    LET parsed == ExtractJson(message, "{", "}") IN
    IF parsed.type = "absent" THEN [type |-> "dict"]
    ELSE IF parsed.type = "dict" THEN parsed
    ELSE [type |-> "dict"]

(* report_content of ReportGenerationAgent.process: the seven sections are *)
(* generated one by one by methods of the same form; the model follows one *)
(* reply text through all of them.                                         *)
report_content(message) ==
    LET content == generate_section(message) IN [section \in ReportSections |-> content]

(***************************************************************************)
(* process_report: the background thread.  A statement that subscripts     *)
(* reports[report_id] raises KeyError once clear_report has removed the    *)
(* record; the handlers the KeyError passes through subscript it again,    *)
(* so the exception leaves the thread.                                     *)
(***************************************************************************)

At(r, pc) == runners[r].pc = pc

StageOf(r) == runners[r].stage

(* The record reports[report_id] that the thread's statement subscripts. *)
Record(r) == reports[runners[r].id]

(* as WriteStep, but the statement creates the record that is missing *)
WriteStep_creating(r, rec, next) ==
    LET id == runners[r].id IN
    /\ reports' = IF id \in DOMAIN reports
                  THEN [reports EXCEPT ![id] = rec]
                  ELSE reports @@ (id :> InitialRecord(runners[r].address,
                                                       "Starting research..."))
    /\ runners' = [runners EXCEPT ![r].pc = next]
    /\ UNCHANGED <<call, workflow, apiKey, nextId, nRuns, conv>>

(* One statement reports[report_id][...] = ... of the thread: rec is the   *)
(* record after it.                                                        *)
WriteStep(r, rec, next) ==
    LET id == runners[r].id IN
    /\ IF id \in DOMAIN reports
       THEN /\ reports' = [reports EXCEPT ![id] = rec]
            /\ runners' = [runners EXCEPT ![r].pc = next]
       ELSE /\ runners' = [runners EXCEPT ![r].pc = "crashed"]
            /\ UNCHANGED reports
    /\ UNCHANGED <<call, workflow, apiKey, nextId, nRuns, conv>>

(* The four writes before stage s. *)
SetStatus(rec, s) == [rec EXCEPT !.status = StageStatus[s]]
SetProgress(rec, s) == [rec EXCEPT !.progress = StageProgress[s]]
SetMessage(rec, s) == [rec EXCEPT !.message = <<StageMessage[s]>>]
SetDetails(rec, s) == [rec EXCEPT !.agent_details[DetailKey[s]] = DetailStart[s]]
(* The write after stage s has returned. *)
SetDetailsDone(rec, s) == [rec EXCEPT !.agent_details[DetailKey[s]] = DetailDone[s]]

(* reports[report_id]['status'] = 'researching' | 'evaluating' | ... *)
update_status(r) ==
    /\ At(r, "status")
    /\ WriteStep(r, SetStatus(Record(r), StageOf(r)), "progress")

(* reports[report_id]['progress'] = 10 | 30 | 50 | 70 *)
update_progress(r) ==
    /\ At(r, "progress")
    /\ WriteStep(r, SetProgress(Record(r), StageOf(r)), "message")

update_message(r) ==
    /\ At(r, "message")
    /\ WriteStep(r, SetMessage(Record(r), StageOf(r)), "details")

update_details(r) ==
    /\ At(r, "details")
    /\ WriteStep(r, SetDetails(Record(r), StageOf(r)), "process")

(* The stage's process raises: the except clause of process_report calls   *)
(* handle_agent_error(report_id, agent_name, e) and returns.               *)
Raise(r, text) ==
    [runners EXCEPT ![r].pc = "h_status", ![r].exc = text,
                    ![r].failed = Stages[StageOf(r)],
                    ![r].live = FALSE, ![r].snap = <<>>, ![r].attempt = 0,
                    ![r].calls = 0]

(* The stage's process returns its result. *)
Return(r) ==
    [runners EXCEPT ![r].pc = "detail_done", ![r].calls = 0, ![r].attempt = 0,
                    ![r].live = FALSE, ![r].snap = <<>>,
                    ![r].outputs = @ \cup {Stages[StageOf(r)]}]

(* BaseAgent.call_openai_api as a function of the service's replies to its *)
(* successive requests: "returns", or the text of the exception raised.    *)
RECURSIVE CallLoop(_, _)
CallLoop(replies, attempt) ==
    IF attempt >= max_retries
    THEN FailedText
    ELSE LET reply == replies[attempt + 1] IN
         IF reply = "200" THEN "returns"
         ELSE IF reply = "429" THEN CallLoop(replies, attempt + 1)
         ELSE IF attempt < max_retries - 1 THEN CallLoop(replies, attempt + 1)
         ELSE ReplyText(reply)

CallResult(replies) == IF ~apiKey THEN FailedText ELSE CallLoop(replies, 0)

(* agent.process(...) as process_report sees it: the call is entered, and  *)
(* it returns or raises what its call of the service ends with.            *)
agent_process(r, replies) ==
    /\ At(r, "process")
    /\ LET entered == [runners EXCEPT ![r].invoked = Append(@, Stages[StageOf(r)])]
           result == CallResult(replies)
       IN runners' = IF result = "returns"
                     THEN [entered EXCEPT ![r].pc = "detail_done",
                                          ![r].outputs = @ \cup {Stages[StageOf(r)]}]
                     ELSE [entered EXCEPT ![r].pc = "h_status", ![r].exc = result,
                                          ![r].failed = Stages[StageOf(r)]]
    /\ UNCHANGED <<call, workflow, apiKey, reports, nextId, nRuns, conv>>

(* reports[report_id]['agent_details'][...] = '... complete', then the     *)
(* next stage or the completion                                            *)
update_details_done(r) ==
    /\ At(r, "detail_done")
    /\ IF runners[r].id \in DOMAIN reports
       THEN /\ reports' = [reports EXCEPT ![runners[r].id] = SetDetailsDone(@, StageOf(r))]
            /\ runners' = IF StageOf(r) < Len(Stages)
                          THEN [runners EXCEPT ![r].pc = "status", ![r].stage = @ + 1]
                          ELSE [runners EXCEPT ![r].pc = "c_status"]
       ELSE /\ runners' = [runners EXCEPT ![r].pc = "crashed"]
            /\ UNCHANGED reports
    /\ UNCHANGED <<call, workflow, apiKey, nextId, nRuns, conv>>

(* The completion writes of process_report. *)
SetComplete(rec) == [rec EXCEPT !.status = "complete"]
SetCompleteProgress(rec) == [rec EXCEPT !.progress = 100]
SetCompleteMessage(rec) == [rec EXCEPT !.message = <<"Report generation complete">>]
SetHtml(rec, r) == [rec EXCEPT !.html = <<r>>]
SetContent(rec, r, content) ==
    [rec EXCEPT !.content = <<[runner |-> r, sections |-> content]>>]
SetDate(rec) == [rec EXCEPT !.date = <<"date">>]
SetData(rec, r) == [rec EXCEPT !.data = <<r>>]

complete_status(r) ==
    /\ At(r, "c_status")
    /\ WriteStep(r, SetComplete(Record(r)), "c_progress")

complete_progress(r) ==
    /\ At(r, "c_progress")
    /\ WriteStep(r, SetCompleteProgress(Record(r)), "c_message")

complete_message(r) ==
    /\ At(r, "c_message")
    /\ WriteStep(r, SetCompleteMessage(Record(r)), "c_html")

complete_html(r) ==
    /\ At(r, "c_html")
    /\ WriteStep(r, SetHtml(Record(r), r), "c_content")

(* reports[report_id]['content'] = report_result['report_content'] *)
complete_content(r, message) ==
    /\ At(r, "c_content")
    /\ WriteStep(r, SetContent(Record(r), r, report_content(message)), "c_date")

complete_date(r) ==
    /\ At(r, "c_date")
    /\ WriteStep(r, SetDate(Record(r)), "c_data")

complete_data(r) ==
    /\ At(r, "c_data")
    /\ WriteStep(r, SetData(Record(r), r), "done")

(***************************************************************************)
(* handle_agent_error(report_id, agent_name, exception)                    *)
(***************************************************************************)

SetError(rec) == [rec EXCEPT !.status = "error"]
SetErrorMessage(rec, agent, text) == [rec EXCEPT !.message = <<"Error in agent", agent, text>>]
SetRateLimitMessage(rec) ==
    [rec EXCEPT !.message = <<"OpenAI API rate limit reached. Please try again later.">>]
SetCanRetry(rec) == [rec EXCEPT !.can_retry = <<TRUE>>]
SetRetryAfter(rec) == [rec EXCEPT !.retry_after = <<60>>]
SetErrorDetails(rec, agent, text) ==
    [rec EXCEPT !.error_details = <<[error |-> text, agent |-> agent]>>]
SetErrorAgent(rec, agent) == [rec EXCEPT !.agent_details.error_agent = agent]
SetErrorText(rec, text) == [rec EXCEPT !.agent_details.error_message = text]

(* reports[report_id]['status'] = 'error' *)
handle_agent_error_status(r) ==
    /\ At(r, "h_status")
    /\ WriteStep(r, SetError(Record(r)), "h_message")

(* reports[report_id]['message'] = f"Error in {agent_name} agent: {error_message}" *)
handle_agent_error_message(r) ==
    /\ At(r, "h_message")
    /\ WriteStep(r, SetErrorMessage(Record(r), runners[r].failed, runners[r].exc),
                 IF ContainsRateLimit(runners[r].exc) THEN "h_rl_message"
                                                      ELSE "h_error_details")

handle_agent_error_rate_limit_message(r) ==
    /\ At(r, "h_rl_message")
    /\ WriteStep(r, SetRateLimitMessage(Record(r)), "h_can_retry")

handle_agent_error_can_retry(r) ==
    /\ At(r, "h_can_retry")
    /\ WriteStep(r, SetCanRetry(Record(r)), "h_retry_after")

handle_agent_error_retry_after(r) ==
    /\ At(r, "h_retry_after")
    /\ WriteStep(r, SetRetryAfter(Record(r)), "h_error_details")

handle_agent_error_details(r) ==
    /\ At(r, "h_error_details")
    /\ WriteStep(r, SetErrorDetails(Record(r), runners[r].failed, runners[r].exc),
                 "h_error_agent")

handle_agent_error_agent(r) ==
    /\ At(r, "h_error_agent")
    /\ WriteStep(r, SetErrorAgent(Record(r), runners[r].failed), "h_error_message")

(* as AfterHandler, but process_report goes on with the next stage *)
AfterHandler_no_return(r) ==
    IF StageOf(r) < Len(Stages)
    THEN [runners[r] EXCEPT !.pc = "status", !.stage = @ + 1]
    ELSE [runners[r] EXCEPT !.pc = "done"]

(* handle_agent_error(...) has returned: the return of process_report *)
AfterHandler(r) == [runners[r] EXCEPT !.pc = "done"]

handle_agent_error_error_message(r) ==
    /\ At(r, "h_error_message")
    /\ IF runners[r].id \in DOMAIN reports
       THEN /\ reports' = [reports EXCEPT ![runners[r].id] = SetErrorText(@, runners[r].exc)]
            /\ runners' = [runners EXCEPT ![r] = AfterHandler(r)]
       ELSE /\ runners' = [runners EXCEPT ![r].pc = "crashed"]
            /\ UNCHANGED reports
    /\ UNCHANGED <<call, workflow, apiKey, nextId, nRuns, conv>>

RunnerStep(r) ==
    \/ update_status(r)
    \/ update_progress(r)
    \/ update_message(r)
    \/ update_details(r)
    \/ \E replies \in [1..max_retries -> Replies] : agent_process(r, replies)
    \/ update_details_done(r)
    \/ complete_status(r)
    \/ complete_progress(r)
    \/ complete_message(r)
    \/ complete_html(r)
    \/ \E message \in SectionReplies : complete_content(r, message)
    \/ complete_date(r)
    \/ complete_data(r)
    \/ handle_agent_error_status(r)
    \/ handle_agent_error_message(r)
    \/ handle_agent_error_rate_limit_message(r)
    \/ handle_agent_error_can_retry(r)
    \/ handle_agent_error_retry_after(r)
    \/ handle_agent_error_details(r)
    \/ handle_agent_error_agent(r)
    \/ handle_agent_error_error_message(r)

(***************************************************************************)
(* test.run_workflow: the four agents of test.py are constructed and       *)
(* called one after the other inside one try.                              *)
(***************************************************************************)

(* SimpleAgent.call_openai as a function of the service's replies:         *)
(* "returns", or the text of the exception raised.                         *)
RECURSIVE call_openai(_, _)
call_openai(replies, retry_count) ==
    LET reply == replies[retry_count + 1] IN
    IF reply = "200" THEN "returns"
    ELSE IF reply = "429"
    THEN IF retry_count + 1 > call_openai_max_retries
         THEN RateLimitText
         ELSE call_openai(replies, retry_count + 1)
    ELSE ReplyText(reply)

(* input_data.get(key, default) *)
Get(input_data, key) ==
    IF key \in DOMAIN input_data THEN input_data[key] ELSE "default"

(* The dict process(input_data) of stage s returns.  The agents of test.py *)
(* copy the keys of the stages before them and add their own; the         *)
(* openai_* agents registered with the orchestrator return their own       *)
(* sections, of which the accessor writes again those of the evaluation.   *)
StageOutput(program, s, input_data) ==
    LET address == "address" :> Get(input_data, "address")
        name == Stages[s]
    IN IF program = "run_workflow"
       THEN LET postcode == "postcode" :> Get(input_data, "postcode")
                property_data == "property_data" :> Get(input_data, "property_data")
                evaluation_data == "evaluation_data" :> Get(input_data, "evaluation_data")
            IN IF s = 1
               THEN address @@ ("postcode" :> name) @@ ("property_data" :> name)
               ELSE IF s = 2
               THEN address @@ postcode @@ property_data @@ ("evaluation_data" :> name)
               ELSE IF s = 3
               THEN address @@ postcode @@ property_data @@ evaluation_data
                            @@ ("accessor_data" :> name)
               ELSE address @@ postcode @@ ("report_data" :> name)
       ELSE IF s = 1 THEN address @@ ("property_details" :> name)
       ELSE IF s = 2 THEN address @@ ("executive_summary" :> name)
       ELSE IF s = 3
       THEN address @@ ("executive_summary" :> name) @@ ("approval_status" :> name)
       ELSE address @@ ("report_content" :> name)

(* raise ValueError(f"Failed to parse ... data: {str(e)}") *)
ParseText == "Failed to parse data"

(* process(...) of an agent of test.py: "returns", or the text of the      *)
(* exception raised.  The reply is decoded with json.loads; a reply that   *)
(* does not decode raises ValueError.                                      *)
process_result(replies, decodes) ==
    LET result == call_openai(replies, 0) IN
    IF result # "returns" THEN result
    ELSE IF ~decodes THEN ParseText
    ELSE "returns"

(* One stage of run_workflow: XAgent() and its process(...).  The          *)
(* constructor raises ValueError when the key is missing; any exception    *)
(* ends the workflow with {"success": False, "error": str(e)}.             *)
run_workflow(replies, decodes) ==
    /\ workflow.program = "run_workflow"
    /\ workflow.pc = "stage"
    /\ LET s == workflow.step
           entered == [workflow EXCEPT !.invoked = Append(@, Stages[s]),
                                       !.input_data = workflow.current_data]
           result == process_result(replies, decodes)
           output == StageOutput("run_workflow", s, workflow.current_data)
       IN workflow' =
            IF ~apiKey
            THEN [workflow EXCEPT !.pc = "returned", !.status = "failure",
                                  !.error = "OpenAI API key not found"]
            ELSE IF result # "returns"
            THEN [entered EXCEPT !.pc = "returned", !.status = "failure",
                                 !.error = result, !.failed = Stages[s]]
            ELSE IF s < Len(Stages)
            THEN [entered EXCEPT !.outputs = @ \cup {Stages[s]}, !.step = s + 1,
                                 !.current_data = output]
            ELSE [entered EXCEPT !.outputs = @ \cup {Stages[s]}, !.pc = "returned",
                                 !.status = "success", !.current_data = output]
    /\ UNCHANGED <<call, apiKey, reports, nextId, runners, nRuns, conv>>

(***************************************************************************)
(* AgentOrchestrator.execute_workflow of agents/base_agent_improved.py,    *)
(* with the four stage agents registered.                                  *)
(***************************************************************************)

(* the except clause: status 'error', and the last entry of                *)
(* workflow_steps, if there is one, is marked                              *)
WorkflowError(w, text) ==
    [w EXCEPT !.pc = "returned", !.status = "error", !.error = text,
              !.workflow_steps =
                  IF @ = <<>> THEN @
                  ELSE [@ EXCEPT ![Len(@)] = [agent_id |-> @.agent_id, status |-> "error"]]]

(* step.get('parameters', {}): no parameters, or a parameter under a key   *)
(* that the data or a stage's result also has.                             *)
StepParameters == {<<>>, "address" :> "parameters", "executive_summary" :> "parameters"}

(* One iteration of the loop over the workflow, or the statements after it; *)
(* input_data = {**current_data, **step_params}                            *)
execute_workflow(raises, parameters) ==
    /\ workflow.program = "execute_workflow"
    /\ workflow.pc = "step"
    /\ workflow' =
         IF workflow.step > Len(workflow.steps)
         THEN [workflow EXCEPT !.pc = "returned", !.status = "complete",
                               !.final_result = workflow.current_data]
         ELSE LET agent_id == workflow.steps[workflow.step]
                  input_data == parameters @@ workflow.current_data
                  entered == [workflow EXCEPT !.invoked = Append(@, agent_id),
                                              !.input_data = input_data]
              IN IF agent_id \notin {Stages[i] : i \in DOMAIN Stages}
                 THEN WorkflowError(workflow, "Invalid agent ID")
                 ELSE IF raises
                 THEN WorkflowError([entered EXCEPT !.failed = agent_id], FailedText)
                 ELSE [entered EXCEPT
                          !.workflow_steps =
                              Append(@, [agent_id |-> agent_id, status |-> "success"]),
                          !.outputs = @ \cup {agent_id},
                          !.current_data =
                              StageOutput("execute_workflow",
                                          CHOOSE i \in DOMAIN Stages : Stages[i] = agent_id,
                                          input_data),
                          !.step = @ + 1]
    /\ UNCHANGED <<call, apiKey, reports, nextId, runners, nRuns, conv>>

Next ==
    \/ \E address \in Addresses : generate_report(address)
    \/ \E id \in Ids : report_status(id)
    \/ \E id \in Ids : clear_report(id)
    \/ \E id \in Ids : retry_report(id)
    \/ \E r \in Runs : RunnerStep(r)
    \/ \E replies \in [1..call_openai_max_retries + 1 -> Replies] :
          \E decodes \in BOOLEAN : run_workflow(replies, decodes)
    \/ \E raises \in BOOLEAN : \E parameters \in StepParameters :
          execute_workflow(raises, parameters)

Spec == Init /\ [][Next]_vars

(***************************************************************************)
(* The stage agents from the inside: agent.process(input_data) of          *)
(* agents/openai_*.py on the one agent instance registered per stage.      *)
(* conv[s] is the list self.conversation_history of the agent of stage s;  *)
(* a message is tagged with the job it was produced for, the system        *)
(* prompt with SystemPrompt.  Each stage makes CallsPerStage calls.        *)
(***************************************************************************)

SystemPrompt == 0

(* The list the messages parameter of a running call_openai_api refers to: *)
(* the agent's current list, or the list it had before another call of     *)
(* clear_conversation_history rebound self.conversation_history.           *)
Messages(r) == IF runners[r].live THEN conv[StageOf(r)] ELSE runners[r].snap

(* process: the input check, then clear_conversation_history of            *)
(* initialize_conversation                                                 *)
clear_conversation_history(r) ==
    /\ At(r, "process")
    /\ conv' = [conv EXCEPT ![StageOf(r)] = <<>>]
    /\ runners' = [q \in Runs |->
          IF q = r
          THEN [runners[r] EXCEPT !.pc = "system",
                                  !.invoked = Append(@, Stages[StageOf(r)])]
          ELSE IF runners[q].live /\ StageOf(q) = StageOf(r)
          THEN [runners[q] EXCEPT !.live = FALSE, !.snap = conv[StageOf(r)]]
          ELSE runners[q]]
    /\ UNCHANGED <<call, workflow, apiKey, reports, nextId, nRuns>>

(* add_to_conversation("system", self.get_system_prompt()) *)
initialize_conversation(r) ==
    /\ At(r, "system")
    /\ conv' = [conv EXCEPT ![StageOf(r)] = Append(@, SystemPrompt)]
    /\ runners' = [runners EXCEPT ![r].pc = "add_user", ![r].calls = 0]
    /\ UNCHANGED <<call, workflow, apiKey, reports, nextId, nRuns>>

(* add_to_conversation("user", ...) *)
add_to_conversation_user(r) ==
    /\ At(r, "add_user")
    /\ conv' = [conv EXCEPT ![StageOf(r)] = Append(@, runners[r].id)]
    /\ runners' = [runners EXCEPT ![r].pc = "enter_call"]
    /\ UNCHANGED <<call, workflow, apiKey, reports, nextId, nRuns>>

(* self.call_openai_api(self.get_conversation_history(), ...) is entered *)
get_conversation_history(r) ==
    /\ At(r, "enter_call")
    /\ runners' = IF ~apiKey
                  THEN Raise(r, FailedText)
                  ELSE [runners EXCEPT ![r].pc = "call", ![r].attempt = 0,
                                       ![r].live = TRUE, ![r].snap = <<>>]
    /\ UNCHANGED <<call, workflow, apiKey, reports, nextId, nRuns, conv>>

(* One iteration of the loop of BaseAgent.call_openai_api: the request is  *)
(* sent with Messages(r). *)
call_openai_api(r, reply) ==
    /\ At(r, "call")
    /\ runners' =
         IF reply = "200"
         THEN [runners EXCEPT ![r].pc = "add_assistant", ![r].attempt = 0,
                              ![r].live = FALSE, ![r].snap = <<>>]
         ELSE IF reply = "429"
         THEN IF runners[r].attempt + 1 < max_retries
              THEN [runners EXCEPT ![r].attempt = @ + 1]
              ELSE Raise(r, FailedText)
         ELSE IF runners[r].attempt < max_retries - 1
              THEN [runners EXCEPT ![r].attempt = @ + 1]
              ELSE Raise(r, ReplyText(reply))
    /\ UNCHANGED <<call, workflow, apiKey, reports, nextId, nRuns, conv>>

(* add_to_conversation("assistant", assistant_message); after the last of  *)
(* its calls the stage returns its result.                                 *)
add_to_conversation_assistant(r) ==
    /\ At(r, "add_assistant")
    /\ conv' = [conv EXCEPT ![StageOf(r)] = Append(@, runners[r].id)]
    /\ runners' = IF runners[r].calls + 1 < CallsPerStage
                  THEN [runners EXCEPT ![r].pc = "add_user", ![r].calls = @ + 1]
                  ELSE Return(r)
    /\ UNCHANGED <<call, workflow, apiKey, reports, nextId, nRuns>>

(* The writes of process_report between two stage calls, taken together:   *)
(* in ConvSpec no request handler runs between them.                       *)
StageWrites(rec, s) == SetDetails(SetMessage(SetProgress(SetStatus(rec, s), s), s), s)

CompletionWrites(rec, r, message) ==
    SetData(SetDate(SetContent(SetHtml(
        SetCompleteMessage(SetCompleteProgress(SetComplete(rec))), r),
        r, report_content(message))), r)

ErrorWrites(rec, agent, text) ==
    LET first == SetErrorMessage(SetError(rec), agent, text)
        second == IF ContainsRateLimit(text)
                  THEN SetRetryAfter(SetCanRetry(SetRateLimitMessage(first)))
                  ELSE first
    IN SetErrorText(SetErrorAgent(SetErrorDetails(second, agent, text), agent), text)

process_report_begin(r) ==
    /\ At(r, "status")
    /\ StageOf(r) = 1
    /\ WriteStep(r, StageWrites(Record(r), 1), "process")

(* ConvSpec follows each job through its first ConvStages stages. *)
process_report_next(r) ==
    /\ At(r, "detail_done")
    /\ StageOf(r) < ConvStages \/ ConvStages >= Len(Stages)
    /\ \E message \in IF StageOf(r) < Len(Stages) THEN {<<>>} ELSE SectionReplies :
          reports' = [reports EXCEPT ![runners[r].id] =
             IF StageOf(r) < Len(Stages)
             THEN StageWrites(SetDetailsDone(@, StageOf(r)), StageOf(r) + 1)
             ELSE CompletionWrites(SetDetailsDone(@, StageOf(r)), r, message)]
    /\ runners' = IF StageOf(r) < Len(Stages)
                  THEN [runners EXCEPT ![r].pc = "process", ![r].stage = @ + 1]
                  ELSE [runners EXCEPT ![r].pc = "done"]
    /\ UNCHANGED <<call, workflow, apiKey, nextId, nRuns, conv>>

handle_agent_error(r) ==
    /\ At(r, "h_status")
    /\ reports' = [reports EXCEPT ![runners[r].id] =
                      ErrorWrites(@, runners[r].failed, runners[r].exc)]
    /\ runners' = [runners EXCEPT ![r] = AfterHandler(r)]
    /\ UNCHANGED <<call, workflow, apiKey, nextId, nRuns, conv>>

ConvNext ==
    \/ \E address \in Addresses : generate_report(address)
    \/ \E r \in Runs : process_report_begin(r)
    \/ \E r \in Runs : clear_conversation_history(r)
    \/ \E r \in Runs : initialize_conversation(r)
    \/ \E r \in Runs : add_to_conversation_user(r)
    \/ \E r \in Runs : get_conversation_history(r)
    \/ \E r \in Runs : \E reply \in Replies : call_openai_api(r, reply)
    \/ \E r \in Runs : add_to_conversation_assistant(r)
    \/ \E r \in Runs : process_report_next(r)
    \/ \E r \in Runs : handle_agent_error(r)

ConvInit == Init /\ workflow = NoWorkflow

ConvSpec == ConvInit /\ [][ConvNext]_vars

(***************************************************************************)
(* Properties.                                                             *)
(***************************************************************************)

Terminal(status) == status \in {"complete", "error"}

Range(seq) == {seq[i] : i \in DOMAIN seq}

IsPrefix(s, t) == Len(s) <= Len(t) /\ \A i \in DOMAIN s : s[i] = t[i]

Active(r) == runners[r].pc \notin {"unused", "done", "crashed"}

RunnersOf(id) == {r \in Runs : runners[r].id = id}

(* What a poll returns of the fields a terminal record is compared on. *)
TerminalView(id) ==
    LET body == report_status_response(id) IN
    <<body.status, body.progress, body.message, body.error_details,
      body.can_retry, body.retry_after>>

(* C7: retry_report on a job whose status is not 'error' leaves the job's  *)
(* record unchanged and starts no runner, and no job id ever has more than *)
(* one active background runner.                                           *)
C7_RetryOnlyFromError ==
    /\ [](\A id \in Ids : Cardinality({r \in RunnersOf(id) : Active(r)}) <= 1)
    /\ [][\A id \in Ids :
            (/\ id \in DOMAIN reports
             /\ reports[id].status # "error"
             /\ retry_report(id))
            => UNCHANGED <<reports, runners, nRuns>>]_vars

(* C2: once the stored status of a job is 'complete' or 'error', no step   *)
(* of a background runner changes that job's status.                       *)
C2_TerminalStatusFinal ==
    [][\A id \in Ids :
         (/\ id \in DOMAIN reports
          /\ Terminal(reports[id].status)
          /\ \E r \in Runs : RunnerStep(r))
         => /\ id \in DOMAIN reports'
            /\ reports'[id].status = reports[id].status]_vars

(* C3: the progress a poll returns for a job stays within 0..100 and,      *)
(* while the job's status is not terminal, never decreases from one state  *)
(* of the store to the next, whichever handler or runner takes the step.   *)
C3_ProgressMonotone ==
    /\ [](\A id \in Ids : report_status_response(id).success
              => report_status_response(id).progress \in 0..100)
    /\ [][\A id \in Ids :
            (/\ id \in DOMAIN reports
             /\ id \in DOMAIN reports'
             /\ ~Terminal(reports[id].status))
            => reports'[id].progress >= reports[id].progress]_vars

(* C4: two polls that both observe a terminal status, with no retry or     *)
(* clear between them, return the same status, progress, message,          *)
(* error_details, can_retry and retry_after.                               *)
C4_TerminalPollsIdentical ==
    [][\A id \in Ids :
         (/\ id \in DOMAIN reports
          /\ Terminal(reports[id].status)
          /\ ~retry_report(id)
          /\ ~clear_report(id)
          /\ id \in DOMAIN reports'
          /\ Terminal(reports'[id].status))
         => TerminalView(id)' = TerminalView(id)]_vars

(* The (status, progress, message) triples that the completed transitions  *)
(* of a job leave: the initial record of submit or retry, a stage          *)
(* boundary, the completion, and the error of a stage.                     *)
CompletedTriples ==
    {<<"processing", 0, <<"Starting research...">> >>,
     <<"processing", 0, <<"Restarting report generation...">> >>,
     <<"complete", 100, <<"Report generation complete">> >>}
    \cup {<<StageStatus[s], StageProgress[s], <<StageMessage[s]>> >> : s \in DOMAIN Stages}
    \cup {<<"error", StageProgress[s], <<"Error in agent", Stages[s], text>> >> :
              s \in DOMAIN Stages, text \in {RateLimitText, FailedText}}
    \cup {<<"error", StageProgress[s],
            <<"OpenAI API rate limit reached. Please try again later.">> >> :
              s \in DOMAIN Stages}

(* C5: every poll returns the (status, progress, message) triple of one    *)
(* completed transition of the job.                                        *)
C5_NoTornTriple ==
    \A id \in Ids :
        report_status_response(id).success =>
            LET body == report_status_response(id) IN
            <<body.status, body.progress, body.message>> \in CompletedTriples

(* The record holds nothing of a failed run. *)
NoErrorInfo(rec) ==
    /\ rec.status # "error"
    /\ rec.message[1] \notin {"Error in agent",
                              "OpenAI API rate limit reached. Please try again later."}
    /\ rec.error_details = <<>>
    /\ rec.can_retry = <<>>
    /\ rec.retry_after = <<>>
    /\ rec.agent_details.error_agent = ""
    /\ rec.agent_details.error_message = ""

(* C8: retry_report on a job in 'error' leaves the record at 'processing'  *)
(* with progress 0, and as long as the run started by that retry has not   *)
(* failed itself, the record holds no error information.                   *)
C8_RetryDiscardsError ==
    /\ [][\A id \in Ids :
            (/\ id \in DOMAIN reports
             /\ reports[id].status = "error"
             /\ retry_report(id))
            => /\ reports'[id].status = "processing"
               /\ reports'[id].progress = 0
               /\ NoErrorInfo(reports'[id])]_vars
    /\ [](\A id \in Ids : \A r \in Runs :
            (/\ id \in DOMAIN reports
             /\ runners[r].id = id
             /\ runners[r].prev = "error"
             /\ \A q \in Runs : q > r => runners[q].id # id
             /\ runners[r].failed = "")
            => NoErrorInfo(reports[id]))

(* The runner is inside process() of the agent of its stage. *)
InStage(r) == runners[r].pc \in {"system", "add_user", "enter_call", "call", "add_assistant"}

(* C6: the message list of a call made for a job holds only the system     *)
(* prompt and that job's messages, and no job starts a stage on an agent   *)
(* while another job is inside that agent's process().                     *)
C6_ConversationNotShared ==
    /\ [](\A r \in Runs : At(r, "call") =>
              Range(Messages(r)) \subseteq {SystemPrompt, runners[r].id})
    /\ [][\A q, r \in Runs :
            ~(/\ q # r
              /\ runners[q].id # runners[r].id
              /\ InStage(r)
              /\ StageOf(q) = StageOf(r)
              /\ clear_conversation_history(q) \/ initialize_conversation(q))]_vars

(* The runner is between the first write of process_report and the end of  *)
(* its last stage.                                                         *)
InPipeline(r) ==
    runners[r].pc \in {"status", "progress", "message", "details", "process", "detail_done"}

(* C9: generate_report leaves the new id in the store with status          *)
(* 'processing' and its thread started but not yet run, so that a poll     *)
(* finds it; and until the job's only runner leaves its pipeline a poll    *)
(* returns 'processing' or the status of a running stage.                  *)
C9_SubmitResolvable ==
    /\ [][\A address \in Addresses :
            (generate_report(address) /\ generate_report_response(address).success)
            => \A id \in Ids : id = nextId =>
                  /\ report_status_response(id)'.success
                  /\ report_status_response(id)'.status = "processing"
                  /\ runners'[nRuns'].id = id
                  /\ runners'[nRuns'].pc = "status"
                  /\ runners'[nRuns'].stage = 1]_vars
    /\ [](\A id \in Ids : \A r \in Runs :
            (/\ id \in DOMAIN reports
             /\ RunnersOf(id) = {r}
             /\ InPipeline(r))
            => report_status_response(id).status
                   \in {"processing"} \cup Range(StageStatus))

(* A job has just been submitted: its record is stored and its thread has  *)
(* not taken a step.                                                       *)
C9_Witness ==
    /\ nextId = 2
    /\ 1 \in DOMAIN reports
    /\ reports[1].status = "processing"
    /\ runners[1].pc = "status"
    /\ runners[1].id = 1

StageIndex(name) == CHOOSE i \in DOMAIN Stages : Stages[i] = name

(* The stages entered are the first stages of the pipeline, each entered   *)
(* after the one before it has returned; a stage that raised is the last   *)
(* one entered and has no output.                                          *)
InOrder(invoked, outputs, failed) ==
    /\ IsPrefix(invoked, Stages)
    /\ outputs \subseteq Range(invoked)
    /\ \A i \in 1..(Len(invoked) - 1) : invoked[i] \in outputs
    /\ failed # "" => /\ invoked # <<>>
                      /\ invoked[Len(invoked)] = failed
                      /\ failed \notin outputs

(* Nothing of the stages after stage k is in the record. *)
LaterStagesUnstored(rec, k) ==
    /\ \A j \in DOMAIN Stages : j > k => rec.agent_details[DetailKey[j]] = "Waiting..."
    /\ rec.html = <<>>
    /\ rec.content = <<>>
    /\ rec.data = <<>>

(* C1: in process_report, run_workflow and execute_workflow the stages are *)
(* invoked in the order research, evaluation, accessor, report_generator;  *)
(* once a stage has raised no later stage is invoked, and no output of a   *)
(* later stage is held or stored.                                          *)
C1_StagesInOrder ==
    /\ \A r \in Runs : InOrder(runners[r].invoked, runners[r].outputs, runners[r].failed)
    /\ \A id \in DOMAIN reports : \A r \in Runs :
          (RunnersOf(id) = {r} /\ runners[r].failed # "")
          => LaterStagesUnstored(reports[id], StageIndex(runners[r].failed))
    /\ InOrder(workflow.invoked, workflow.outputs, workflow.failed)
    /\ \A i \in DOMAIN workflow.workflow_steps :
          workflow.workflow_steps[i].agent_id = Stages[i]
    /\ workflow.failed # "" =>
          /\ workflow.pc = "returned"
          /\ workflow.status \in {"failure", "error"}
          /\ workflow.final_result = <<>>
          /\ workflow.program = "execute_workflow" =>
                Len(workflow.workflow_steps) = StageIndex(workflow.failed) - 1

(* The evaluation stage of a job has raised and its runner has returned. *)
C1_Witness ==
    \E r \in Runs :
        /\ runners[r].pc = "done"
        /\ runners[r].failed = "evaluation"
        /\ runners[r].invoked = <<"research", "evaluation">>
        /\ runners[r].outputs = {"research"}
        /\ runners[r].id \in DOMAIN reports
        /\ reports[runners[r].id].status = "error"

(* The threads are scheduled fairly: a runner that can take a step         *)
(* eventually takes one.                                                   *)
FairSpec == Spec /\ \A r \in Runs : WF_vars(RunnerStep(r))

(* C10: every submitted job eventually has status 'complete' or 'error'    *)
(* in the store.                                                           *)
C10_EveryJobTerminates ==
    \A id \in Ids :
        (id < nextId) ~> (id \in DOMAIN reports /\ Terminal(reports[id].status))

(* C11: no exception leaves a background thread: whatever is raised while  *)
(* process_report runs, a removed record included, the thread ends by      *)
(* returning and never by an exception.                                    *)
C11_NoExceptionEscapes ==
    \A r \in Runs : runners[r].pc # "crashed"

(***************************************************************************)
(* The three retry loops around the generative service, one request at a   *)
(* time: call_openai_api of agents/base_agent_improved.py, call_openai_api *)
(* of agents/base_agent.py and SimpleAgent.call_openai of test.py.         *)
(* Durations are in milliseconds, jitter in thousandths.                   *)
(***************************************************************************)

(* base_agent_improved.call_openai_api: max_retries: int = 5, and the      *)
(* floor of max(actual_delay, 0.1)                                         *)
improved_max_retries == 5
delay_floor == 100

(* BaseAgent.__init__ of base_agent.py: self.retry_delay = 2  # seconds *)
retry_delay == 2

(* What one request ends with.  For the OpenAI client: a response,         *)
(* RateLimitError, AuthenticationError or another APIError (both are       *)
(* subclasses of openai.APIError), or any other exception.  For            *)
(* requests.post: the HTTP status, or an exception of the transport.       *)
ClientOutcomes == {"response", "RateLimitError", "AuthenticationError", "APIError",
                   "Exception"}
HttpOutcomes == {"200", "429", "401", "500", "ConnectionError"}

(* The outcomes that are a fatal error of the service: an HTTP status      *)
(* other than 200 and 429 (the else branch of base_agent.call_openai_api), *)
(* and the client errors raised for such a status.                         *)
FatalOutcomes == {"AuthenticationError", "APIError", "401", "500"}

(* The arguments call_openai_api is entered with: the defaults, and values *)
(* that make the cap and the floor of the delay take effect, among them a  *)
(* maximum below the floor.                                                *)
InitialRetryDelays == {1000, 40000}
MaxRetryDelays == {60000, 50}
Jitters == {100, 1000}

(* random.uniform(-jitter, jitter) *)
JitterSamples(jitter) == {-jitter, 0, jitter}

Min(a, b) == IF a <= b THEN a ELSE b

Max(a, b) == IF a >= b THEN a ELSE b

RECURSIVE Pow2(_)
Pow2(n) == IF n = 0 THEN 1 ELSE 2 * Pow2(n - 1)

(* The invocation is entered.  An agent of base_agent.py is constructed    *)
(* with or without the key (its constructor only warns); the constructors  *)
(* of SimpleAgent and of the agent of base_agent_improved.py raise without *)
(* it (the latter out of OpenAI(api_key=None)), so that no invocation of   *)
(* theirs is entered without the key.                                      *)
EnterCall(function, retries, initial, maximum, jitter) ==
    [NoCall EXCEPT !.function = function, !.pc = "loop", !.max_retries = retries,
                   !.retry_delay = initial, !.initial_retry_delay = initial,
                   !.max_retry_delay = maximum, !.jitter = jitter]

CallInit ==
    /\ call \in {EnterCall("base_agent_improved.call_openai_api", improved_max_retries,
                           initial, maximum, jitter) :
                     initial \in InitialRetryDelays, maximum \in MaxRetryDelays,
                     jitter \in Jitters}
                \cup {EnterCall("base_agent.call_openai_api", max_retries,
                                retry_delay * 1000, 0, 0),
                      EnterCall("SimpleAgent.call_openai", call_openai_max_retries,
                                2000, 0, 0)}
    /\ workflow = NoWorkflow
    /\ apiKey \in BOOLEAN
    /\ apiKey \/ call.function = "base_agent.call_openai_api"
    /\ reports = <<>>
    /\ nextId = 1
    /\ runners = [r \in Runs |-> NoRunner]
    /\ nRuns = 0
    /\ conv = [s \in 1..4 |-> <<>>]

(* The request is sent and answered. *)
Requested(c, reply) ==
    [c EXCEPT !.requests = @ + 1, !.replies = Append(@, reply)]

Returned(c) == [c EXCEPT !.pc = "returned"]

Raised(c, text) == [c EXCEPT !.pc = "raised", !.error = text]

(* retry_count += 1 *)
NextRetryCount(c) == c.retry_count + 1

(* as Exhausted, but one more retry is allowed *)
Exhausted_late(c) == c.retry_count > c.max_retries + 1

(* if retry_count > max_retries: raise *)
Exhausted(c) == c.retry_count > c.max_retries

(* as ActualDelay, without the min with max_retry_delay *)
ActualDelay_uncapped(c, sample) ==
    Max(c.retry_delay + (sample * c.retry_delay) \div 1000, delay_floor)

(* jitter_amount = random.uniform(-jitter, jitter) * retry_delay           *)
(* actual_delay = min(retry_delay + jitter_amount, max_retry_delay)        *)
(* actual_delay = max(actual_delay, 0.1)                                   *)
ActualDelay(c, sample) ==
    LET jitter_amount == (sample * c.retry_delay) \div 1000
    IN Max(Min(c.retry_delay + jitter_amount, c.max_retry_delay), delay_floor)

(* time.sleep(actual_delay); retry_delay = min(retry_delay * 2, max_retry_delay) *)
Backoff(c, sample) ==
    [c EXCEPT !.sleeps = Append(@, ActualDelay(c, sample)),
              !.retry_delay = Min(@ * 2, c.max_retry_delay)]

(* One iteration of the while loop of base_agent_improved.call_openai_api; *)
(* the two retrying except clauses differ in the text they raise.          *)
call_openai_api_improved(reply, sample) ==
    /\ call.function = "base_agent_improved.call_openai_api"
    /\ call.pc = "loop"
    /\ call' =
         IF call.retry_count > call.max_retries
         THEN Returned(call)
         ELSE LET sent == Requested(call, reply)
                  counted == [sent EXCEPT !.retry_count = NextRetryCount(call)]
              IN IF reply = "response" THEN Returned(sent)
                 ELSE IF reply = "Exception" THEN Raised(sent, FailedText)
                 ELSE IF Exhausted(counted)
                 THEN Raised(counted, IF reply = "RateLimitError" THEN RateLimitText
                                                                  ELSE FailedText)
                 ELSE Backoff(counted, sample)
    /\ UNCHANGED <<workflow, apiKey, reports, nextId, runners, nRuns, conv>>

(* wait_time = (2 ** attempt) * self.retry_delay; time.sleep(wait_time) *)
WaitTime(attempt) == Pow2(attempt) * retry_delay * 1000

(* as api_key_checked, without the check *)
api_key_unchecked(c, next) == next

(* if not self.api_key: raise ValueError(...), before the loop *)
api_key_checked(c, next) ==
    IF ~apiKey THEN Raised(c, "OpenAI API key not found") ELSE next

(* One iteration of for attempt in range(self.max_retries) of              *)
(* base_agent.call_openai_api, or the raise after the loop.  retry_count   *)
(* holds attempt.                                                          *)
call_openai_api_attempt(reply) ==
    /\ call.function = "base_agent.call_openai_api"
    /\ call.pc = "loop"
    /\ call' = api_key_checked(call,
         IF call.retry_count >= call.max_retries
         THEN Raised(call, FailedText)
         ELSE LET attempt == call.retry_count
                  sent == Requested(call, reply)
                  slept == [sent EXCEPT !.sleeps = Append(@, WaitTime(attempt)),
                                        !.retry_count = attempt + 1]
              IN IF reply = "200" THEN Returned(sent)
                 ELSE IF reply = "429" THEN slept
                 ELSE IF attempt < call.max_retries - 1 THEN slept
                 ELSE Raised(sent, FailedText))
    /\ UNCHANGED <<workflow, apiKey, reports, nextId, runners, nRuns, conv>>

(* One iteration of the while loop of SimpleAgent.call_openai. *)
call_openai_attempt(reply) ==
    /\ call.function = "SimpleAgent.call_openai"
    /\ call.pc = "loop"
    /\ call' =
         IF call.retry_count > call.max_retries
         THEN Returned(call)
         ELSE LET sent == Requested(call, reply)
                  counted == [sent EXCEPT !.retry_count = call.retry_count + 1]
              IN IF reply = "response" THEN Returned(sent)
                 ELSE IF reply # "RateLimitError" THEN Raised(sent, FailedText)
                 ELSE IF Exhausted(counted)
                 THEN Raised(counted, RateLimitText)
                 ELSE [counted EXCEPT !.sleeps = Append(@, call.retry_delay),
                                      !.retry_delay = @ * 2]
    /\ UNCHANGED <<workflow, apiKey, reports, nextId, runners, nRuns, conv>>

CallNext ==
    \/ \E reply \in ClientOutcomes : \E sample \in JitterSamples(call.jitter) :
          call_openai_api_improved(reply, sample)
    \/ \E reply \in HttpOutcomes : call_openai_api_attempt(reply)
    \/ \E reply \in ClientOutcomes : call_openai_attempt(reply)

CallSpec == CallInit /\ [][CallNext]_vars

(* The most requests one invocation may issue: max_retries + 1 in          *)
(* base_agent_improved and SimpleAgent, max_retries in base_agent.         *)
RequestLimit(c) ==
    IF c.function = "base_agent.call_openai_api" THEN c.max_retries
    ELSE c.max_retries + 1

(* C12: whatever the service answers, one invocation issues at most        *)
(* max_retries + 1 requests (base_agent_improved, SimpleAgent) or          *)
(* max_retries requests (base_agent); after its last request it has        *)
(* returned a response or raised.                                          *)
C12_RetriesBounded ==
    /\ [](call.requests <= RequestLimit(call))
    /\ [](call.pc = "returned" =>
             call.replies[Len(call.replies)] \in {"response", "200"})
    /\ []((call.pc = "loop" /\ call.requests = RequestLimit(call)) =>
             /\ call.function = "base_agent.call_openai_api"
             /\ call.retry_count = call.max_retries)
    /\ [][(call.pc = "loop" /\ call.requests = RequestLimit(call))
            => call'.pc = "raised"]_vars

(* Every request of an invocation of base_agent_improved was answered with *)
(* a rate limit and the invocation has raised.                             *)
C12_Witness ==
    /\ call.function = "base_agent_improved.call_openai_api"
    /\ call.pc = "raised"
    /\ call.requests = improved_max_retries + 1
    /\ \A i \in DOMAIN call.replies : call.replies[i] = "RateLimitError"

(* C13: a fatal error of the service is never retried: an invocation whose *)
(* first request was answered with one has issued exactly that request,    *)
(* has not slept, and has raised.                                          *)
C13_FatalNeverRetried ==
    (call.replies # <<>> /\ call.replies[1] \in FatalOutcomes) =>
        /\ call.requests = 1
        /\ call.sleeps = <<>>
        /\ call.pc = "raised"

(* The sleeps of an invocation of base_agent_improved.call_openai_api. *)
ImprovedSleeps ==
    IF call.function = "base_agent_improved.call_openai_api"
    THEN Range(call.sleeps) ELSE {}

RateLimitedAlways == [attempt \in 1..max_retries |-> "429"]

(* C15: when the service answers every request with a rate limit, the job  *)
(* ends in status 'error', report_status returns can_retry true, and       *)
(* research is recorded as the failing stage.  Stated for a job that only  *)
(* one runner has worked on and whose record is stored.                    *)
C15_RateLimitedJobRetryable ==
    \A r \in Runs :
        ( /\ apiKey
          /\ runners[r].pc = "done"
          /\ runners[r].failed = "research"
          /\ runners[r].exc = CallResult(RateLimitedAlways)
          /\ runners[r].id \in DOMAIN reports
          /\ RunnersOf(runners[r].id) = {r} )
        => LET body == report_status_response(runners[r].id) IN
           /\ body.status = "error"
           /\ body.can_retry = TRUE
           /\ body.error_details # <<>>
           /\ body.error_details[1].agent = "research"
           /\ body.agent_details.error_agent = "research"

(***************************************************************************)
(* app.py: the application that runs test.run_workflow in the background   *)
(* thread.  Its records have no agent_details; report_text and report_data *)
(* are read back from the files run_workflow leaves.                       *)
(***************************************************************************)

AppCall == [NoWorkflow EXCEPT !.program = "app"]

(* reports[report_id] = {...} of generate_report of app.py *)
AppRecord(address) ==
    [address |-> address, status |-> "processing", progress |-> 0,
     message |-> <<"Starting research...">>, report_text |-> <<>>,
     report_data |-> <<>>, error_details |-> <<>>]

(* What opening and reading the two report files ends with: their text,    *)
(* FileNotFoundError, or another exception.                                *)
FileOutcomes == {"read", "FileNotFoundError", "OSError"}

(* The files ReportGenerator.process writes in the working directory, the  *)
(* same for every job; workflow.files holds, for each file that exists,    *)
(* the job whose report it contains.                                       *)
ReportFiles == {"report_output_refined.json", "report_output_refined.txt"}

AppInit ==
    /\ call = NoCall
    /\ workflow = AppCall
    /\ apiKey \in BOOLEAN
    /\ reports = <<>>
    /\ nextId = 1
    /\ runners = [r \in Runs |-> NoRunner]
    /\ nRuns = 0
    /\ conv = [s \in 1..4 |-> <<>>]

(* generate_report of app.py: the request may carry an api_key, which is   *)
(* put into the environment once the address is known to be present.       *)
app_generate_report(address, api_key) ==
    LET key == apiKey \/ (address # "" /\ api_key) IN
    /\ apiKey' = key
    /\ IF address # "" /\ key
       THEN /\ nextId <= MaxJobs
            /\ nRuns < MaxRuns
            /\ reports' = reports @@ (nextId :> AppRecord(address))
            /\ runners' = [runners EXCEPT ![nRuns + 1] =
                              [NoRunner EXCEPT !.id = nextId, !.address = address,
                                               !.pc = "a_begin", !.stage = 1]]
            /\ nRuns' = nRuns + 1
            /\ nextId' = nextId + 1
       ELSE UNCHANGED <<reports, runners, nRuns, nextId>>
    /\ UNCHANGED <<call, workflow, conv>>

(* The JSON body of report_status of app.py. *)
app_report_status_response(id) ==
    IF id \notin DOMAIN reports THEN Failure("Report not found")
    ELSE LET report == reports[id] IN
         [success |-> TRUE,
          status |-> report.status,
          progress |-> report.progress,
          message |-> report.message,
          complete |-> (report.status = "complete"),
          error_details |-> report.error_details,
          can_retry |-> (report.status = "error")]

app_report_status(id) ==
    /\ app_report_status_response(id).success \in BOOLEAN
    /\ UNCHANGED vars

app_clear_report(id) ==
    /\ reports' = IF id \in DOMAIN reports
                  THEN [i \in DOMAIN reports \ {id} |-> reports[i]]
                  ELSE reports
    /\ UNCHANGED <<call, workflow, apiKey, nextId, runners, nRuns, conv>>

(* process_report of app.py, the writes before the workflow:               *)
(* status 'researching', progress 10 then 30, the two messages             *)
app_process_report_begin(r) ==
    /\ At(r, "a_begin")
    /\ WriteStep(r, [Record(r) EXCEPT !.status = "researching", !.progress = 30,
                        !.message = <<"Research agent gathering data...">>],
                 "a_workflow")

(* result = run_workflow(address), one stage at a time: an exception of a  *)
(* stage is caught by run_workflow, which returns success False.           *)
AfterWorkflowStage(r, replies, decodes) ==
    LET s == StageOf(r)
        entered == [runners[r] EXCEPT !.invoked = Append(@, Stages[s])]
        result == process_result(replies, decodes)
    IN IF result # "returns"
       THEN [entered EXCEPT !.pc = "a_failed", !.exc = result, !.failed = Stages[s]]
       ELSE IF s < Len(Stages)
       THEN [entered EXCEPT !.outputs = @ \cup {Stages[s]}, !.stage = s + 1]
       ELSE [entered EXCEPT !.outputs = @ \cup {Stages[s]}, !.pc = "a_complete"]

(* The last stage, when it returns, has written the report files:          *)
(* with open("report_output_refined.json", "w") ..., then the .txt         *)
app_run_workflow(r, replies, decodes) ==
    /\ At(r, "a_workflow")
    /\ runners' = [runners EXCEPT ![r] = AfterWorkflowStage(r, replies, decodes)]
    /\ workflow' = IF runners'[r].pc = "a_complete"
                   THEN [workflow EXCEPT !.files = [f \in ReportFiles |-> runners[r].id]]
                   ELSE workflow
    /\ UNCHANGED <<call, apiKey, reports, nextId, nRuns, conv>>

(* if result['success']: status 'complete', progress 100, message *)
app_process_report_complete(r) ==
    /\ At(r, "a_complete")
    /\ WriteStep(r, [Record(r) EXCEPT !.status = "complete", !.progress = 100,
                        !.message = <<"Report generation complete">>],
                 "a_read")

(* The report files are read and stored; when they are missing a basic     *)
(* text is stored; any other exception goes to the outer except clause.    *)
app_process_report_read(r, outcome) ==
    /\ At(r, "a_read")
    /\ IF outcome = "OSError"
       THEN /\ runners' = [runners EXCEPT ![r].pc = "a_except", ![r].exc = outcome]
            /\ UNCHANGED <<call, workflow, apiKey, reports, nextId, nRuns, conv>>
       ELSE IF outcome = "read"
       THEN /\ workflow.files # <<>>
            /\ WriteStep(r, [Record(r) EXCEPT
                     !.report_text = <<outcome, workflow.files["report_output_refined.txt"]>>,
                     !.report_data = <<outcome, workflow.files["report_output_refined.json"]>>],
                  "done")
       ELSE WriteStep(r, [Record(r) EXCEPT !.report_text = <<outcome, runners[r].id>>,
                                           !.report_data = <<outcome, runners[r].id>>],
                      "done")

(* else: status 'error', message "Workflow failed: ..." *)
app_process_report_failed(r) ==
    /\ At(r, "a_failed")
    /\ WriteStep(r, [Record(r) EXCEPT !.status = "error",
                        !.message = <<"Workflow failed", runners[r].exc>>],
                 "done")

(* except Exception as e: status 'error', message, error_details *)
app_process_report_except(r) ==
    /\ At(r, "a_except")
    /\ WriteStep(r, [Record(r) EXCEPT !.status = "error",
                        !.message = <<"Error", runners[r].exc>>,
                        !.error_details = <<[error |-> runners[r].exc]>>],
                 "done")

AppRunnerStep(r) ==
    \/ app_process_report_begin(r)
    \/ \E replies \in [1..call_openai_max_retries + 1 -> Replies] :
          \E decodes \in BOOLEAN : app_run_workflow(r, replies, decodes)
    \/ app_process_report_complete(r)
    \/ \E outcome \in FileOutcomes : app_process_report_read(r, outcome)
    \/ app_process_report_failed(r)
    \/ app_process_report_except(r)

AppNext ==
    \/ \E address \in Addresses : \E api_key \in BOOLEAN :
          app_generate_report(address, api_key)
    \/ \E id \in Ids : app_report_status(id)
    \/ \E id \in Ids : app_clear_report(id)
    \/ \E r \in Runs : AppRunnerStep(r)

AppSpec == AppInit /\ [][AppNext]_vars

(* C16: report_status returns can_retry true only for a job whose failure  *)
(* was a rate limit; for any other failure, a stage error without rate     *)
(* limit or an exception caught by the outer handler, it returns false.    *)
C16_RetryableOnlyForRateLimit ==
    \A id \in DOMAIN reports :
        app_report_status_response(id).can_retry =>
            \E r \in RunnersOf(id) : ContainsRateLimit(runners[r].exc)

(* Every background runner started for the job has finished. *)
JobEnded(id) == RunnersOf(id) # {} /\ \A r \in RunnersOf(id) : ~Active(r)

(* The stage whose process() raised in run r is the last one r entered,    *)
(* and every stage entered before it returned.                             *)
FirstRaised(r) ==
    LET invoked == runners[r].invoked IN
    /\ runners[r].failed # ""
    /\ invoked # <<>>
    /\ runners[r].failed = invoked[Len(invoked)]
    /\ runners[r].failed \notin runners[r].outputs
    /\ \A i \in 1..(Len(invoked) - 1) : invoked[i] \in runners[r].outputs

(* C17: when a job has ended in 'error', error_details.agent and           *)
(* agent_details.error_agent of its record both name the stage that failed *)
(* in a run of the job, and that stage is the first one whose process()    *)
(* raised in that run.                                                     *)
C17_ErrorNamesFailedStage ==
    \A id \in DOMAIN reports :
        (JobEnded(id) /\ reports[id].status = "error") =>
            \E r \in RunnersOf(id) :
                /\ FirstRaised(r)
                /\ reports[id].error_details # <<>>
                /\ reports[id].error_details[1].agent = runners[r].failed
                /\ reports[id].agent_details.error_agent = runners[r].failed

(***************************************************************************)
(* process_report followed through the parse steps of its four agents.     *)
(***************************************************************************)

(* The lists of two scenario dicts built without the reply. *)
DefaultScenarios == [type |-> "list", items |-> <<[type |-> "dict"], [type |-> "dict"]>>]

(* ResearchAgent._parse_address: the decoded object, the simple structure  *)
(* when there are no braces, the basic structure when decoding raises.     *)
parse_address(message) ==
    LET parsed == ExtractJson(message, "{", "}") IN
    IF parsed.type \in {"absent", "JSONDecodeError"} THEN [type |-> "dict"] ELSE parsed

(* EvaluationAgent._generate_development_scenarios: the decoded reply as   *)
(* it is, or the default scenarios.                                        *)
generate_development_scenarios(message) ==
    LET parsed == ExtractJson(message, "[", "]") IN
    IF parsed.type \in {"absent", "JSONDecodeError"} THEN DefaultScenarios ELSE parsed

(* AccessorAgent._review_development_scenarios: the decoded reply as it    *)
(* is, or the scenarios it was given.                                      *)
review_development_scenarios(scenarios, message) ==
    LET parsed == ExtractJson(message, "[", "]") IN
    IF parsed.type \in {"absent", "JSONDecodeError"} THEN scenarios ELSE parsed

(* ReportGenerationAgent._generate_report_html: for scenario in ...:       *)
(* scenario.get('name', 'N/A'), which raises AttributeError on anything    *)
(* but a dict.                                                             *)
generate_report_html(scenarios) ==
    IF \A i \in DOMAIN scenarios.items : scenarios.items[i].type = "dict"
    THEN "html" ELSE "AttributeError"

(* process_report with the four agents, followed through the parse steps. *)
ParseCall ==
    [program |-> "parse", pc |-> "step", step |-> 1, reply |-> <<>>,
     parsed_address |-> [type |-> "absent"], scenarios |-> [type |-> "absent"],
     status |-> "researching", failed |-> "", error |-> ""]

ParseInit ==
    /\ call = NoCall
    /\ workflow = ParseCall
    /\ apiKey = TRUE
    /\ reports = <<>>
    /\ nextId = 1
    /\ runners = [r \in Runs |-> NoRunner]
    /\ nRuns = 0
    /\ conv = [s \in 1..4 |-> <<>>]

(* research: address_parts = self._parse_address(address) *)
research_parse_address(message) ==
    /\ workflow.program = "parse"
    /\ workflow.pc = "step"
    /\ workflow.step = 1
    /\ workflow' = [workflow EXCEPT !.reply = message, !.step = 2,
                                     !.status = "evaluating",
                                     !.parsed_address = parse_address(message)]
    /\ UNCHANGED <<call, apiKey, reports, nextId, runners, nRuns, conv>>

(* evaluation: development_scenarios = self._generate_development_scenarios(...) *)
evaluation_generate_development_scenarios(message) ==
    /\ workflow.program = "parse"
    /\ workflow.pc = "step"
    /\ workflow.step = 2
    /\ workflow' = [workflow EXCEPT !.reply = message, !.step = 3,
                       !.status = "reviewing",
                       !.scenarios = generate_development_scenarios(message)]
    /\ UNCHANGED <<call, apiKey, reports, nextId, runners, nRuns, conv>>

(* accessor: validated_data['development_scenarios'] =                     *)
(*     self._review_development_scenarios(...)                             *)
accessor_review_development_scenarios(message) ==
    /\ workflow.program = "parse"
    /\ workflow.pc = "step"
    /\ workflow.step = 3
    /\ workflow' = [workflow EXCEPT !.reply = message, !.step = 4,
                       !.status = "generating",
                       !.scenarios = review_development_scenarios(workflow.scenarios,
                                                                  message)]
    /\ UNCHANGED <<call, apiKey, reports, nextId, runners, nRuns, conv>>

(* report_generator: report_html = self._generate_report_html(...); an     *)
(* exception of it leaves process and is handled as the stage's failure.   *)
report_generator_generate_report_html ==
    /\ workflow.program = "parse"
    /\ workflow.pc = "step"
    /\ workflow.step = 4
    /\ LET html == generate_report_html(workflow.scenarios) IN
       workflow' =
         IF html = "html"
         THEN [workflow EXCEPT !.reply = <<>>, !.pc = "done", !.status = "complete"]
         ELSE [workflow EXCEPT !.reply = <<>>, !.pc = "done", !.status = "error",
                               !.failed = "report_generator", !.error = html]
    /\ UNCHANGED <<call, apiKey, reports, nextId, runners, nRuns, conv>>

ParseNext ==
    \/ \E message \in Texts : research_parse_address(message)
    \/ \E message \in Texts : evaluation_generate_development_scenarios(message)
    \/ \E message \in Texts : accessor_review_development_scenarios(message)
    \/ report_generator_generate_report_html

ParseSpec == ParseInit /\ [][ParseNext]_vars

(* C18: for every reply text, every parse step returns a payload of the    *)
(* shape the following stages and the HTML rendering expect (the parsed    *)
(* address an object, the scenarios a list of objects), and no later       *)
(* stage of the job fails because of the reply: a job that has gone        *)
(* through its parse steps is not in 'error'.                              *)
C18_ParseNeverBreaksPipeline ==
    (workflow.program = "parse" /\ workflow.pc = "done") =>
        /\ workflow.parsed_address.type = "dict"
        /\ workflow.scenarios.type = "list"
        /\ \A i \in DOMAIN workflow.scenarios.items :
              workflow.scenarios.items[i].type = "dict"
        /\ workflow.status = "complete"

(* The service answers the request of a stage at once, with HTTP 200. *)
Answered == [attempt \in 1..call_openai_max_retries + 1 |-> "200"]

(* C19: when the reply for the Research stage cannot be decoded as JSON,   *)
(* the Research stage still returns a payload and the following stages     *)
(* run: the step of run_workflow that receives an undecodable Research     *)
(* reply leaves Research with an output and without a failure.             *)
C19_UndecodableResearchContinues ==
    [][\A r \in Runs :
          ( /\ At(r, "a_workflow")
            /\ StageOf(r) = 1
            /\ runners'[r] = AfterWorkflowStage(r, Answered, FALSE) )
          => /\ "research" \in runners'[r].outputs
             /\ runners'[r].failed = ""
             /\ runners'[r].pc = "a_workflow"]_vars

(* The record holds a result: html, content or data. *)
HasResult(rec) == rec.html # <<>> \/ rec.content # <<>> \/ rec.data # <<>>

(* C20: in every reachable state of the store, no record holds both a      *)
(* result (html, content, data) and error_details, and a record that holds *)
(* a result has status 'complete'.                                         *)
C20_ResultAndErrorExclusive ==
    \A id \in DOMAIN reports :
        /\ ~(HasResult(reports[id]) /\ reports[id].error_details # <<>>)
        /\ HasResult(reports[id]) => reports[id].status = "complete"

(* The order of the statuses of a job that has not failed. *)
StatusOrder == <<"processing", "researching", "evaluating", "reviewing", "generating",
                 "complete">>

StatusRank(status) == CHOOSE i \in DOMAIN StatusOrder : StatusOrder[i] = status

(* C21: while a job has not reached 'error', the status stored for its id  *)
(* never moves to an earlier element of processing, researching,           *)
(* evaluating, reviewing, generating, complete, and so never returns to    *)
(* 'processing' after leaving it, whichever handler or runner takes the    *)
(* step.                                                                   *)
C21_StatusNeverMovesBack ==
    [][\A id \in Ids :
         (/\ id \in DOMAIN reports
          /\ id \in DOMAIN reports'
          /\ reports[id].status # "error"
          /\ reports'[id].status # "error")
         => StatusRank(reports'[id].status) >= StatusRank(reports[id].status)]_vars

(***************************************************************************)
(* The accumulated pipeline context.                                       *)
(***************************************************************************)

StageNames == {Stages[i] : i \in DOMAIN Stages}

(* The keys stage s of the program writes itself. *)
WrittenBy(program, s) ==
    LET output == StageOutput(program, s, <<>>)
    IN {key \in DOMAIN output : output[key] = Stages[s]}

(* The keys some stage of the program writes. *)
StageKeys(program) == UNION {WrittenBy(program, s) : s \in DOMAIN Stages}

(* A key a stage wrote keeps its value in every later context. *)
KeysNeverOverwritten ==
    [][workflow.program \in {"run_workflow", "execute_workflow"}
       => \A key \in DOMAIN workflow.current_data \cap DOMAIN workflow'.current_data :
             workflow.current_data[key] \in StageNames
             => workflow'.current_data[key] = workflow.current_data[key]]_vars

(* The input of the stage entered last has no key that only stages not yet *)
(* run produce.                                                            *)
InputFromEarlierStages ==
    (workflow.program \in {"run_workflow", "execute_workflow"} /\ workflow.invoked # <<>>)
    => \A key \in DOMAIN workflow.input_data \cap StageKeys(workflow.program) :
          \E s \in 1..(Len(workflow.invoked) - 1) : key \in WrittenBy(workflow.program, s)

(* C22: in the accumulated pipeline context a key written by one stage is  *)
(* never overwritten by a later stage, and the input of a stage never      *)
(* contains a key produced by a stage that has not yet run, in             *)
(* test.run_workflow and in execute_workflow with any step parameters.     *)
C22_ContextKeysStable == KeysNeverOverwritten /\ [](InputFromEarlierStages)

(* The runner's four stages have returned and it takes its last statement. *)
Finishes(r) == runners[r].pc = "c_data" /\ runners'[r].pc = "done"

(* C23: when all four stages succeed, the record left by the finished      *)
(* runner has status 'complete', progress 100 and a report content in      *)
(* which each of the seven sections is a non-null object, whatever the     *)
(* service replied.                                                        *)
C23_FinishedRecordComplete ==
    [][\A r \in Runs :
         Finishes(r)
         => /\ runners[r].id \in DOMAIN reports'
            /\ LET rec == reports'[runners[r].id] IN
               /\ rec.status = "complete"
               /\ rec.progress = 100
               /\ rec.content # <<>>
               /\ \A section \in ReportSections :
                     /\ section \in DOMAIN rec.content[1].sections
                     /\ rec.content[1].sections[section].type = "dict"]_vars

(* C24: generate_report with an empty or missing address fails             *)
(* synchronously: its response is a failure, no record is added, no thread *)
(* is started and the records in the store are unchanged.                  *)
C24_EmptyAddressRejected ==
    [][generate_report("")
       => /\ ~generate_report_response("").success
          /\ UNCHANGED <<reports, runners, nRuns, nextId>>]_vars

(* Records are stored, the credential is set and a further job could be    *)
(* started when the request without address is refused.                    *)
C24_Witness ==
    /\ workflow.program = "app_improved"
    /\ apiKey
    /\ reports # <<>>
    /\ nextId <= MaxJobs
    /\ nRuns < MaxRuns
    /\ ENABLED generate_report("")
    /\ ~generate_report_response("").success

(***************************************************************************)
(* The requests that carry an address: validate_address and                *)
(* generate_report of app_improved.py, with the runners they start.        *)
(***************************************************************************)

(* len(address) < 10 of validate_address *)
address_min_length == 10

RequestAddresses == Addresses \cup {"SW1A 2AA"}

(* len(address) *)
AddressLength ==
    ("" :> 0) @@ ("SW1A 2AA" :> 8) @@ ("10 Downing Street, London, SW1A 2AA" :> 35)

(* What validate_address returns; with or without the postcode warning the *)
(* address is valid once it has the length.                                *)
validate_address_response(address) ==
    IF address = "" \/ AddressLength[address] < address_min_length
    THEN [valid |-> FALSE, message |-> "Please enter a complete UK address"]
    ELSE [valid |-> TRUE, formatted_address |-> address]

(* validate_address reads the request and changes nothing. *)
validate_address(address) ==
    /\ workflow.program = "app_improved"
    /\ validate_address_response(address).valid \in BOOLEAN
    /\ UNCHANGED vars

IntakeNext ==
    \/ \E address \in RequestAddresses : validate_address(address)
    \/ \E address \in RequestAddresses : generate_report(address)
    \/ \E id \in Ids : report_status(id)
    \/ \E id \in Ids : clear_report(id)
    \/ \E r \in Runs : RunnerStep(r)

IntakeSpec == ConvInit /\ [][IntakeNext]_vars

(* C25: generate_report with a non-empty address shorter than the          *)
(* 10-character threshold of validate_address is rejected synchronously    *)
(* and creates no job: no stored record has an address validate_address    *)
(* refuses.                                                                *)
C25_ShortAddressRejected ==
    \A id \in DOMAIN reports : validate_address_response(reports[id].address).valid

(* C26: report_status, retry_report and clear_report on an id that is not  *)
(* in the store answer not-found, leave the store unchanged and start no   *)
(* runner; clearing an id twice leaves what clearing it once leaves.       *)
C26_UnknownIdNotFound ==
    /\ [](\A id \in Ids :
            /\ id \notin DOMAIN reports
               => /\ report_status_response(id) = Failure("Report not found")
                  /\ retry_report_response(id) = Failure("Report not found")
                  /\ clear_report_response(id) = Failure("Report not found")
            /\ Cleared(Cleared(reports, id), id) = Cleared(reports, id))
    /\ [][\A id \in Ids :
            (id \notin DOMAIN reports
             /\ (report_status(id) \/ retry_report(id) \/ clear_report(id)))
            => UNCHANGED <<reports, runners, nRuns, nextId>>]_vars

(* One id has been cleared while the record of the other is stored. *)
C26_Witness ==
    /\ workflow.program = "app_improved"
    /\ nextId > MaxJobs
    /\ 1 \notin DOMAIN reports
    /\ 2 \in DOMAIN reports
    /\ ENABLED clear_report(1)
    /\ ENABLED retry_report(1)

(* C27: with no API credential no request is ever sent: generate_report    *)
(* has created no job and started no runner, and an invocation of          *)
(* call_openai_api on an agent without key has sent no request and slept   *)
(* no backoff, and its next step is the raise.                             *)
C27_NoKeyNoRequest ==
    /\ [](~apiKey
          => /\ reports = <<>>
             /\ nRuns = 0
             /\ \A r \in Runs : runners[r] = NoRunner
             /\ call.requests = 0
             /\ call.sleeps = <<>>
             /\ call.pc # "returned")
    /\ [][(~apiKey /\ call.pc = "loop" /\ call' # call)
          => (call'.pc = "raised" /\ call'.requests = 0 /\ call'.sleeps = <<>>)]_vars

(* The invocation on an agent without key has raised. *)
C27_Witness ==
    /\ ~apiKey
    /\ call.function = "base_agent.call_openai_api"
    /\ call.pc = "raised"
    /\ call.requests = 0

(* C28: with two concurrent jobs in app.py, the report_text and the        *)
(* report_data stored for a completed job are that job's own report and    *)
(* never the other job's.                                                  *)
C28_OwnReportStored ==
    \A id \in DOMAIN reports :
        (workflow.program = "app" /\ reports[id].status = "complete")
        => /\ reports[id].report_text # <<>> => reports[id].report_text[2] = id
           /\ reports[id].report_data # <<>> => reports[id].report_data[2] = id

(* C29: after clear_report has removed an id, no step of the runner still  *)
(* working on it creates a record under it again, so that report_status    *)
(* reports not-found for it from then on.                                  *)
C29_ClearedIdStaysCleared ==
    [][\A id \in Ids :
         (id < nextId /\ id \notin DOMAIN reports)
         => /\ id \notin DOMAIN reports'
            /\ report_status_response(id)' = Failure("Report not found")]_vars

(* The id has been cleared while its runner was between two stages, and    *)
(* the runner has since taken the statement that subscripts the record.    *)
C29_Witness ==
    \E r \in Runs :
        /\ runners[r].id \in Ids
        /\ runners[r].id \notin DOMAIN reports
        /\ runners[r].pc = "crashed"
        /\ runners[r].outputs # {}

(* C30: when the agent of step k raises in execute_workflow, the result    *)
(* has status 'error' and final_result None, the entries of workflow_steps *)
(* for the steps 1..k-1 keep status 'success', and the error is attached   *)
(* to the failing step k and to no earlier step.                           *)
C30_ErrorOnFailingStep ==
    (/\ workflow.program = "execute_workflow"
     /\ workflow.pc = "returned"
     /\ workflow.failed # "")
    => LET k == Len(workflow.invoked) IN
       /\ workflow.status = "error"
       /\ workflow.final_result = <<>>
       /\ \A i \in 1..(k - 1) :
             /\ i \in DOMAIN workflow.workflow_steps
             /\ workflow.workflow_steps[i].status = "success"
       /\ \A i \in DOMAIN workflow.workflow_steps :
             workflow.workflow_steps[i].status = "error"
             => workflow.workflow_steps[i].agent_id = workflow.failed

====
